---- MODULE Spec2Model ----
(***************************************************************************)
(* Student Attendance Management (src/main.py): the SQLite store with its  *)
(* two tables, the domain functions over it, and the Tkinter front end     *)
(* (entries, the Mark Attendance table, the View text area).               *)
(*                                                                         *)
(* Text is modelled by TLA+ strings; Len, \o, SubSeq, Head and Tail act on *)
(* them character by character.                                            *)
(***************************************************************************)
EXTENDS Naturals, Sequences, FiniteSets, TLC

VARIABLES
    students,    \* table students, rows in rowid order: [student_id, name]
    attendance,  \* table attendance, rows in rowid order: [student_id, att_date, status]
    ent_id,      \* Add Student panel: text of the Student ID entry
    ent_name,    \* Add Student panel: text of the Name entry
    ent_date,    \* Mark Attendance panel: text of the date entry
    view_date,   \* View Attendance panel: text of the date entry
    tree,        \* Mark Attendance table: the items' values, top to bottom
    selection,   \* indices of the selected items of the table
    txt_view,    \* View Attendance panel: characters inserted in the text area
    leaked,      \* a connection dropped without close() still holds the store's write lock
    as_loaded,   \* history: Load Students has run and no menu command since
    last         \* the most recent call or handler run: what it called, returned and showed

vars == <<students, attendance, ent_id, ent_name, ent_date, view_date, tree,
          selection, txt_view, leaked, as_loaded, last>>

-----------------------------------------------------------------------------
(* The inputs the model draws from.  The roster is bounded by the ids on    *)
(* offer (student_id is unique), a mapping by its keys, the marks by both.  *)

\* what the operator may type in the Add Student entries: <<Student ID, Name>>
AddInputs == {<<"S1", "Zoe">>, <<" S2 ", " Amy ">>, <<"S1", " ">>, <<"", "Zoe">>}
\* what the operator may type in the date entry of the Mark Attendance panel
DateInputs == {" ", " 2024-01-01 "}
\* what a direct caller of the domain functions may pass
ApiIds == {"S1", "S2"}
ApiNames == {"Zoe", "Amy"}
ApiDates == {"2024-01-01", "2024-01-02"}
\* str(date.today()) at window creation
Today == "2024-01-01"
\* what the save-file chooser may return ("" when cancelled)
ChooserResults == {"", "out.csv"}

-----------------------------------------------------------------------------
(* Text *)

Status == {"Present", "Absent"}

CharAt(s, i) == SubSeq(s, i, i)

IsSpace(c) == c \in {" ", "\t", "\n", "\r"}

RECURSIVE lstrip(_)
lstrip(s) ==
    IF Len(s) > 0 /\ IsSpace(Head(s)) THEN lstrip(Tail(s)) ELSE s

RECURSIVE rstrip(_)
rstrip(s) ==
    IF Len(s) > 0 /\ IsSpace(CharAt(s, Len(s)))
    THEN rstrip(SubSeq(s, 1, Len(s) - 1))
    ELSE s

\* variant: the text is taken as typed, untrimmed
TextAsTyped(s) == s

\* str.strip(): leading and trailing whitespace removed, the inside kept
strip(s) == rstrip(lstrip(s))

\* the byte value of the characters that occur in names
CodePoint(c) ==
    CASE c = " " -> 32
      [] c = "A" -> 65
      [] c = "Z" -> 90
      [] c = "e" -> 101
      [] c = "m" -> 109
      [] c = "o" -> 111
      [] c = "y" -> 121

\* SQLite's BINARY collation: memcmp, the shorter text first when one is a prefix
RECURSIVE TextLeq(_, _)
TextLeq(a, b) ==
    IF Len(a) = 0 THEN TRUE
    ELSE IF Len(b) = 0 THEN FALSE
    ELSE IF Head(a) = Head(b) THEN TextLeq(Tail(a), Tail(b))
    ELSE CodePoint(Head(a)) < CodePoint(Head(b))

\* "\n".join(lines)
RECURSIVE JoinLines(_)
JoinLines(lines) ==
    IF Len(lines) = 0 THEN ""
    ELSE IF Len(lines) = 1 THEN lines[1]
    ELSE lines[1] \o "\n" \o JoinLines(Tail(lines))

-----------------------------------------------------------------------------
(* The store *)

\* the permutations of 1..n
Perms(n) == {p \in [1..n -> 1..n] : \A i, j \in 1..n : p[i] = p[j] => i = j}

\* variant: no ORDER BY, the rows come in rowid order
OrderByRowid(rows) == {rows}

\* ORDER BY name: every order of the rows that ascends by name.  SQL leaves the
\* order of rows with equal names open, so the result is one of a set.
\* A row is a tuple whose second column is the name.
OrderByName(rows) ==
    LET n == Len(rows)
        arranged == {[i \in 1..n |-> rows[p[i]]] : p \in Perms(n)}
    IN  {r \in arranged : \A i \in 1..(n - 1) : TextLeq(r[i][2], r[i + 1][2])}

RECURSIVE Flatten(_)
Flatten(seqs) ==
    IF Len(seqs) = 0 THEN <<>> ELSE Head(seqs) \o Flatten(Tail(seqs))

\* variant: the column is not declared UNIQUE
UniqueNotDeclared(student_id) == FALSE

\* students.student_id TEXT UNIQUE: the insert is refused when the id is stored
UniqueViolated(student_id) ==
    \E i \in 1..Len(students) : students[i].student_id = student_id

\* a writer finds the store locked by a connection that was never closed:
\* its first writing statement raises "database is locked"
StoreLocked == leaked

\* add_student(student_id, name): [ok, msg] as returned, the table and the
\* connection as left behind.  An exception skips conn.close(): the connection
\* stays open, and after a refused INSERT it holds the write lock.
add_student(student_id, name) ==
    IF StoreLocked
    THEN [ok |-> FALSE, msg |-> "database is locked",
          students |-> students, leaked |-> TRUE]
    ELSE IF UniqueViolated(student_id)
    THEN [ok |-> FALSE, msg |-> "UNIQUE constraint failed: students.student_id",
          students |-> students, leaked |-> TRUE]
    ELSE [ok |-> TRUE, msg |-> "Student added.",
          students |-> Append(students, [student_id |-> student_id, name |-> name]),
          leaked |-> FALSE]

\* get_students(): SELECT student_id, name FROM students ORDER BY name; the
\* possible results, each a sequence of <<student_id, name>>
get_students ==
    OrderByName([i \in 1..Len(students) |-> <<students[i].student_id, students[i].name>>])

\* variant: no DELETE before the INSERTs
DeleteNothing(table, att_date) == table

\* variant: DELETE FROM attendance, the WHERE clause left out
DeleteAll(table, att_date) == <<>>

\* DELETE FROM attendance WHERE att_date=?
DeleteDate(table, att_date) ==
    SelectSeq(table, LAMBDA a : a.att_date # att_date)

\* variant: the status column is bound to 'Present', not to the item's value
InsertMarkAsPresent(table, student_id, att_date, status) ==
    Append(table, [student_id |-> student_id, att_date |-> att_date, status |-> "Present"])

\* INSERT INTO attendance (student_id, att_date, status) VALUES (?, ?, ?)
InsertMark(table, student_id, att_date, status) ==
    Append(table, [student_id |-> student_id, att_date |-> att_date, status |-> status])

\* the table as the connection of mark_attendance sees it after the DELETE and
\* the first n INSERTs; records is the dict's items in order
RECURSIVE Executed(_, _, _, _)
Executed(table, att_date, records, n) ==
    IF n = 0 THEN DeleteDate(table, att_date)
    ELSE InsertMark(Executed(table, att_date, records, n - 1),
                    records[n][1], att_date, records[n][2])

\* variant: the connection is in autocommit mode, every statement durable at once
DurableAtOnce(before, work, committed) == work

\* what a connection's statements leave in the store: they run in one
\* transaction, which only conn.commit() makes durable
Durable(before, work, committed) ==
    IF committed THEN work ELSE before

\* mark_attendance(att_date, records).  fault = 0: no statement fails; fault = k:
\* the call is interrupted after k statements (the DELETE, then the INSERTs) and
\* before the commit.  A locked store fails the DELETE itself.
mark_attendance(att_date, records, fault) ==
    IF StoreLocked
    THEN [raised |-> TRUE, attendance |-> attendance, leaked |-> TRUE]
    ELSE IF fault > 0
    THEN [raised |-> TRUE,
          attendance |-> Durable(attendance,
                                 Executed(attendance, att_date, records, fault - 1),
                                 FALSE),
          leaked |-> TRUE]
    ELSE [raised |-> FALSE,
          attendance |-> Durable(attendance,
                                 Executed(attendance, att_date, records, Len(records)),
                                 TRUE),
          leaked |-> FALSE]

\* students s LEFT JOIN attendance a ON s.student_id = a.student_id AND a.att_date=?
\* with IFNULL(a.status, 'Absent'): per student one row for each matching mark,
\* or one row with Absent when there is none
JoinRows(att_date) ==
    LET matches(s) == SelectSeq(attendance,
                          LAMBDA a : a.student_id = s.student_id /\ a.att_date = att_date)
        rowsOf(s) ==
            IF Len(matches(s)) = 0
            THEN << <<s.student_id, s.name, "Absent">> >>
            ELSE [k \in 1..Len(matches(s)) |->
                     <<s.student_id, s.name, matches(s)[k].status>>]
    IN  Flatten([i \in 1..Len(students) |-> rowsOf(students[i])])

\* get_attendance_for_date(att_date): the possible results, each a sequence of
\* <<student_id, name, status>>
get_attendance_for_date(att_date) ==
    OrderByName(JoinRows(att_date))

\* csv.writer with the default dialect: a field holding the delimiter, a quote
\* or a line break is quoted, its quotes doubled
RECURSIVE DoubleQuotes(_)
DoubleQuotes(s) ==
    IF Len(s) = 0 THEN ""
    ELSE (IF Head(s) = "\"" THEN "\"\"" ELSE Head(s)) \o DoubleQuotes(Tail(s))

CsvField(s) ==
    IF \E i \in 1..Len(s) : CharAt(s, i) \in {",", "\"", "\n", "\r"}
    THEN "\"" \o DoubleQuotes(s) \o "\""
    ELSE s

\* writer.writerow: the fields joined by commas, ended by \r\n
CsvRow(f) ==
    CsvField(f[1]) \o "," \o CsvField(f[2]) \o "," \o CsvField(f[3]) \o ","
        \o CsvField(f[4]) \o "\r\n"

RECURSIVE CsvRows(_, _)
CsvRows(rows, att_date) ==
    IF Len(rows) = 0 THEN ""
    ELSE CsvRow(<<rows[1][1], rows[1][2], rows[1][3], att_date>>)
             \o CsvRows(Tail(rows), att_date)

\* export_csv(att_date, dest_path): the text written, for the rows the query gave
export_csv(att_date, rows) ==
    CsvRow(<<"Student ID", "Name", "Status", "Date">>) \o CsvRows(rows, att_date)

-----------------------------------------------------------------------------
(* What the most recent call or handler run did *)

NoDialog == <<>>
NoFile == <<>>

\* op: the function or handler; date: the att_date it worked on ("" if none);
\* ret: what a direct call returned; raised: an exception left it; dialog: the
\* message box shown, <<kind, title, message>>; calls: the store functions it
\* called, in order; file: <<path, text>> written
Event(op, date, ret, raised, dialog, calls, file) ==
    [op |-> op, date |-> date, ret |-> ret, raised |-> raised,
     dialog |-> dialog, calls |-> calls, file |-> file]

Idle == Event("none", "", <<>>, FALSE, NoDialog, <<>>, NoFile)

Init ==
    /\ students = <<>>
    /\ attendance = <<>>
    /\ ent_id = ""
    /\ ent_name = ""
    /\ ent_date = Today
    /\ view_date = Today
    /\ tree = <<>>
    /\ selection = {}
    /\ txt_view = ""
    /\ leaked = FALSE
    /\ as_loaded = FALSE
    /\ last = Idle

\* The interpreter's cyclic collector finalizes a connection that was dropped
\* open: its transaction is rolled back and its lock released.
CollectGarbage ==
    /\ leaked
    /\ leaked' = FALSE
    /\ last' = Idle
    /\ UNCHANGED <<students, attendance, ent_id, ent_name, ent_date, view_date,
                   tree, selection, txt_view, as_loaded>>

-----------------------------------------------------------------------------
(* The front end: AttendanceApp *)

\* the operator fills in the entries of the Add Student panel
EditAddEntries ==
    /\ \E text \in AddInputs : ent_id' = text[1] /\ ent_name' = text[2]
    /\ last' = Idle
    /\ UNCHANGED <<students, attendance, ent_date, view_date, tree, selection,
                   txt_view, leaked, as_loaded>>

\* the operator edits the date entry of the Mark Attendance panel
EditDate ==
    /\ \E text \in DateInputs \cup {Today} : ent_date' = text
    /\ last' = Idle
    /\ UNCHANGED <<students, attendance, ent_id, ent_name, view_date, tree,
                   selection, txt_view, leaked, as_loaded>>

\* the Add button
add_student_ui ==
    LET sid == strip(ent_id)
        name == strip(ent_name)
    IN  IF sid = "" \/ name = ""
        THEN /\ last' = Event("add_student_ui", "", <<>>, FALSE,
                              <<"showwarning", "Input", "Enter both Student ID and Name.">>,
                              <<>>, NoFile)
             /\ UNCHANGED <<students, attendance, ent_id, ent_name, ent_date,
                            view_date, tree, selection, txt_view, leaked, as_loaded>>
        ELSE LET r == add_student(sid, name)
             IN  /\ students' = r.students
                 /\ leaked' = r.leaked
                 /\ ent_id' = IF r.ok THEN "" ELSE ent_id
                 /\ ent_name' = IF r.ok THEN "" ELSE ent_name
                 /\ last' = Event("add_student_ui", "", <<>>, FALSE,
                                  IF r.ok THEN <<"showinfo", "Success", r.msg>>
                                          ELSE <<"showerror", "Error", r.msg>>,
                                  <<"add_student">>, NoFile)
                 /\ UNCHANGED <<attendance, ent_date, view_date, tree, selection,
                                txt_view, as_loaded>>

\* the Load Students button: every item deleted, one inserted per student
load_students_for_marking ==
    /\ \E rows \in get_students :
          tree' = [i \in 1..Len(rows) |-> <<rows[i][1], rows[i][2], "Absent">>]
    /\ selection' = {}
    /\ as_loaded' = TRUE
    /\ last' = Event("load_students_for_marking", "", <<>>, FALSE, NoDialog,
                     <<"get_students">>, NoFile)
    /\ UNCHANGED <<students, attendance, ent_id, ent_name, ent_date, view_date,
                   txt_view, leaked>>

\* a right click: the row under the pointer becomes the selection (row 0: the
\* pointer is on no row) and the menu pops up
show_context ==
    /\ \E row \in 0..Len(tree) : selection' = IF row = 0 THEN {} ELSE {row}
    /\ last' = Event("show_context", "", <<>>, FALSE, NoDialog, <<>>, NoFile)
    /\ UNCHANGED <<students, attendance, ent_id, ent_name, ent_date, view_date,
                   tree, txt_view, leaked, as_loaded>>

\* variant: the menu command is applied to every row, not to the selection
set_status_all ==
    /\ \E status \in Status :
          tree' = [i \in 1..Len(tree) |-> <<tree[i][1], tree[i][2], status>>]
    /\ as_loaded' = FALSE
    /\ last' = Event("set_status_selected", "", <<>>, FALSE, NoDialog, <<>>, NoFile)
    /\ UNCHANGED <<students, attendance, ent_id, ent_name, ent_date, view_date,
                   selection, txt_view, leaked>>

\* the menu's Mark Present and Mark Absent
set_status_selected ==
    /\ \E status \in Status :
          tree' = [i \in 1..Len(tree) |->
                      IF i \in selection THEN <<tree[i][1], tree[i][2], status>>
                                         ELSE tree[i]]
    /\ as_loaded' = FALSE
    /\ last' = Event("set_status_selected", "", <<>>, FALSE, NoDialog, <<>>, NoFile)
    /\ UNCHANGED <<students, attendance, ent_id, ent_name, ent_date, view_date,
                   selection, txt_view, leaked>>

\* records[k] = v on a dict kept as its items in insertion order
DictSet(d, k, v) ==
    IF \E i \in 1..Len(d) : d[i][1] = k
    THEN [i \in 1..Len(d) |-> IF d[i][1] = k THEN <<k, v>> ELSE d[i]]
    ELSE Append(d, <<k, v>>)

\* the dict save_attendance builds from the first n items of the table
RECURSIVE TableRecords(_)
TableRecords(n) ==
    IF n = 0 THEN <<>>
    ELSE DictSet(TableRecords(n - 1), tree[n][1], tree[n][3])

\* the Save Attendance button
save_attendance ==
    LET att_date == strip(ent_date)
    IN  IF att_date = ""
        THEN /\ last' = Event("save_attendance", att_date, <<>>, FALSE,
                              <<"showwarning", "Input", "Enter date.">>, <<>>, NoFile)
             /\ UNCHANGED <<students, attendance, ent_id, ent_name, ent_date,
                            view_date, tree, selection, txt_view, leaked, as_loaded>>
        ELSE LET r == mark_attendance(att_date, TableRecords(Len(tree)), 0)
             IN  /\ attendance' = r.attendance
                 /\ leaked' = r.leaked
                 /\ last' = Event("save_attendance", att_date, <<>>, r.raised,
                                  IF r.raised THEN NoDialog
                                  ELSE <<"showinfo", "Saved",
                                         "Attendance saved for " \o att_date>>,
                                  <<"mark_attendance">>, NoFile)
                 /\ UNCHANGED <<students, ent_id, ent_name, ent_date, view_date,
                                tree, selection, txt_view, as_loaded>>

\* the Export CSV button
export_attendance ==
    LET att_date == strip(ent_date)
    IN  /\ IF att_date = ""
           THEN last' = Event("export_attendance", att_date, <<>>, FALSE,
                              <<"showwarning", "Input", "Enter date.">>, <<>>, NoFile)
           ELSE \E f \in ChooserResults :
                   IF f = ""
                   THEN last' = Event("export_attendance", att_date, <<>>, FALSE,
                                      NoDialog, <<>>, NoFile)
                   ELSE \E rows \in get_attendance_for_date(att_date) :
                           last' = Event("export_attendance", att_date, <<>>, FALSE,
                                         <<"showinfo", "Exported",
                                           "Attendance exported to " \o f>>,
                                         <<"get_attendance_for_date">>,
                                         <<f, export_csv(att_date, rows)>>)
        /\ UNCHANGED <<students, attendance, ent_id, ent_name, ent_date, view_date,
                       tree, selection, txt_view, leaked, as_loaded>>

\* f"{sid} | {name} -> {status}"
ViewLine(row) == row[1] \o " | " \o row[2] \o " -> " \o row[3]

\* variant: no branch for an empty result
ViewTextOfRows(rows) ==
    JoinLines([i \in 1..Len(rows) |-> ViewLine(rows[i])])

\* what show_attendance_view inserts in the cleared text area
ViewText(rows) ==
    IF Len(rows) = 0 THEN "No students found.\n"
    ELSE JoinLines([i \in 1..Len(rows) |-> ViewLine(rows[i])])

\* the Show button
show_attendance_view ==
    LET att_date == strip(view_date)
    IN  /\ \E rows \in get_attendance_for_date(att_date) : txt_view' = ViewText(rows)
        /\ last' = Event("show_attendance_view", att_date, <<>>, FALSE, NoDialog,
                         <<"get_attendance_for_date">>, NoFile)
        /\ UNCHANGED <<students, attendance, ent_id, ent_name, ent_date, view_date,
                       tree, selection, leaked, as_loaded>>

Next ==
    \/ EditAddEntries
    \/ EditDate
    \/ add_student_ui
    \/ load_students_for_marking
    \/ show_context
    \/ set_status_selected
    \/ save_attendance
    \/ export_attendance
    \/ show_attendance_view
    \/ CollectGarbage

\* the application: init_db(), the window, then the handlers one at a time
Spec == Init /\ [][Next]_vars

-----------------------------------------------------------------------------
(* The domain functions called directly, as a test of the layer would *)

\* the dicts a caller may pass, as their items: the keys distinct, S1 before S2
\* (the order of the items decides only the rowids of the marks)
RecordDicts ==
    LET Items == ApiIds \X Status
        upTo == UNION {[1..n -> Items] : n \in 0..Cardinality(ApiIds)}
    IN  {d \in upTo : \A i, j \in 1..Len(d) :
                          i < j => d[i][1] = "S1" /\ d[j][1] = "S2"}

AddStudentCall(student_id, name) ==
    LET r == add_student(student_id, name)
    IN  /\ students' = r.students
        /\ leaked' = r.leaked
        /\ last' = Event("add_student", "", <<r.ok, r.msg>>, FALSE, NoDialog,
                         <<>>, NoFile)
        /\ UNCHANGED <<attendance, ent_id, ent_name, ent_date, view_date, tree,
                       selection, txt_view, as_loaded>>

ApiAddStudent ==
    \E student_id \in ApiIds, name \in ApiNames : AddStudentCall(student_id, name)

\* fault: 0, or the number of statements after which the call is interrupted
MarkAttendanceCall(att_date, records, fault) ==
    LET r == mark_attendance(att_date, records, fault)
    IN  /\ attendance' = r.attendance
        /\ leaked' = r.leaked
        /\ last' = Event("mark_attendance", att_date,
                         IF r.raised /\ ~StoreLocked THEN <<fault>> ELSE <<>>,
                         r.raised, NoDialog, <<>>, NoFile)
        /\ UNCHANGED <<students, ent_id, ent_name, ent_date, view_date, tree,
                       selection, txt_view, as_loaded>>

ApiMarkAttendance ==
    \E att_date \in ApiDates, records \in RecordDicts :
        \E fault \in 0..(Len(records) + 1) :
            MarkAttendanceCall(att_date, records, fault)

ApiNext ==
    \/ ApiAddStudent
    \/ ApiMarkAttendance
    \/ CollectGarbage

\* the store after init_db(), then any sequence of calls of the functions that
\* write it, complete or interrupted
SpecApi == Init /\ [][ApiNext]_vars

-----------------------------------------------------------------------------
(* Properties of the domain functions, checked under SpecApi *)

\* the marks stored for a date, in rowid order
MarksFor(table, att_date) == SelectSeq(table, LAMBDA a : a.att_date = att_date)

\* the dates a query is tried with: those that may hold marks, and two that
\* hold none
QueryDates == ApiDates \cup {"", "2024-01-03"}

InRoster(student_id) == \E i \in 1..Len(students) : students[i].student_id = student_id

\* C1: add_student with a student_id the roster already holds returns (False,
\* message) and leaves the roster as it was; so no two roster rows ever share a
\* student_id.
C1_DuplicateIdRejected ==
    /\ [][\A student_id \in ApiIds, name \in ApiNames :
            (InRoster(student_id) /\ AddStudentCall(student_id, name))
                => /\ last'.ret[1] = FALSE
                   /\ Len(last'.ret[2]) > 0
                   /\ students' = students]_vars
    /\ [](\A i, j \in 1..Len(students) :
            students[i].student_id = students[j].student_id => i = j)

\* a duplicate id was just refused, the roster full
C1_Witness ==
    /\ last.op = "add_student"
    /\ last.ret = <<FALSE, "UNIQUE constraint failed: students.student_id">>
    /\ Len(students) = 2

\* the row mark_attendance stores for one item of the mapping
MarkRow(item, att_date) ==
    [student_id |-> item[1], att_date |-> att_date, status |-> item[2]]

\* the stored marks of a date are exactly one row per key of the mapping
ExactlyMarks(table, att_date, records) ==
    LET stored == MarksFor(table, att_date)
    IN  /\ Len(stored) = Len(records)
        /\ \A i \in 1..Len(records) :
               \E j \in 1..Len(stored) : stored[j] = MarkRow(records[i], att_date)

\* C2: when mark_attendance(d, m) completes, the marks stored for d are exactly
\* one row (s, d, m[s]) per key s of m, whatever was stored for d before; with
\* S1 and S2 in the roster and only S1 marked (Present) for d, saving
\* {S2: Present} for d makes the view of d show S1 Absent and S2 Present.
C2_ReplaceOnSave ==
    [][\A att_date \in ApiDates, records \in RecordDicts :
        ( /\ last'.op = "mark_attendance" /\ ~last'.raised /\ last'.date = att_date
          /\ MarkAttendanceCall(att_date, records, 0) )
            => /\ ExactlyMarks(attendance', att_date, records)
               /\ ( /\ InRoster("S1") /\ InRoster("S2")
                    /\ ExactlyMarks(attendance, att_date, << <<"S1", "Present">> >>)
                    /\ records = << <<"S2", "Present">> >> )
                  => \A rows \in get_attendance_for_date(att_date)' :
                        \A k \in 1..Len(rows) :
                            /\ rows[k][1] = "S1" => rows[k][3] = "Absent"
                            /\ rows[k][1] = "S2" => rows[k][3] = "Present"]_vars

\* a save for a date has completed: S1 and S2 are in the roster, the date holds
\* the single mark S2 Present, the other date still holds marks
C2_Witness ==
    /\ last.op = "mark_attendance"
    /\ ~last.raised
    /\ InRoster("S1") /\ InRoster("S2")
    /\ ExactlyMarks(attendance, last.date, << <<"S2", "Present">> >>)
    /\ Len(attendance) > 1

\* C4: a mark_attendance(d, m) interrupted anywhere between its DELETE and its
\* commit leaves, as the durable marks of d, all the marks stored before the
\* call or all the new ones from m: never none of a set that was not empty,
\* never a part.
C4_ReplaceIsAtomic ==
    [][\A att_date \in ApiDates, records \in RecordDicts :
        \A fault \in 1..(Len(records) + 1) :
            ( /\ last'.op = "mark_attendance" /\ last'.date = att_date
              /\ last'.ret = <<fault>>
              /\ MarkAttendanceCall(att_date, records, fault) )
                => \/ MarksFor(attendance', att_date) = MarksFor(attendance, att_date)
                   \/ MarksFor(attendance', att_date)
                          = [i \in 1..Len(records) |-> MarkRow(records[i], att_date)]]_vars

\* a call was interrupted after its DELETE and one INSERT, and the date it was
\* for holds two marks
C4_Witness ==
    /\ last.op = "mark_attendance"
    /\ last.raised
    /\ last.ret = <<2>>
    /\ Len(MarksFor(attendance, last.date)) = 2

\* C10: mark_attendance(d, m) leaves the roster and the marks of every other
\* date as they were: for every date d2 other than d the rows of the view (the
\* join of the roster with the marks of d2) are the same before and after.
C10_OtherDatesUntouched ==
    [][last'.op = "mark_attendance"
        => /\ students' = students
           /\ \A d2 \in QueryDates \ {last'.date} :
                /\ MarksFor(attendance', d2) = MarksFor(attendance, d2)
                /\ JoinRows(d2)' = JoinRows(d2)]_vars

\* a save for one date has completed while the other date holds a Present mark
\* of a roster student
C10_Witness ==
    /\ last.op = "mark_attendance"
    /\ ~last.raised
    /\ Len(MarksFor(attendance, last.date)) = 2
    /\ \E i \in 1..Len(attendance) :
          /\ attendance[i].att_date # last.date
          /\ attendance[i].status = "Present"
          /\ InRoster(attendance[i].student_id)

-----------------------------------------------------------------------------
(* Properties of the application, checked under Spec *)

\* C3: whatever the operator does, the attendance table holds at most one mark
\* for each (student_id, date) pair.
C3_OneMarkPerStudentAndDate ==
    \A i, j \in 1..Len(attendance) :
        ( /\ attendance[i].student_id = attendance[j].student_id
          /\ attendance[i].att_date = attendance[j].att_date ) => i = j

\* attendance was just saved again for a date that already held marks for both
\* students
C3_Witness ==
    /\ last.op = "save_attendance"
    /\ ~last.raised
    /\ last.calls = <<"mark_attendance">>
    /\ Len(MarksFor(attendance, last.date)) = 2
    /\ \E i \in 1..Len(attendance) : attendance[i].status = "Present"

\* C5: for every date, get_attendance_for_date returns one row per roster
\* student and no other row, ascending by name; a row's status is that of the
\* student's stored mark for the date, and Absent when there is none.
C5_ViewPerStudent ==
    \A att_date \in QueryDates :
        /\ get_attendance_for_date(att_date) # {}
        /\ \A rows \in get_attendance_for_date(att_date) :
            /\ Len(rows) = Len(students)
            /\ \A i \in 1..Len(students) :
                  \E k \in 1..Len(rows) :
                      /\ rows[k][1] = students[i].student_id
                      /\ rows[k][2] = students[i].name
            /\ \A k \in 1..Len(rows) : InRoster(rows[k][1])
            /\ \A k \in 1..(Len(rows) - 1) : TextLeq(rows[k][2], rows[k + 1][2])
            /\ \A k \in 1..Len(rows) :
                  LET mine == SelectSeq(MarksFor(attendance, att_date),
                                        LAMBDA a : a.student_id = rows[k][1])
                  IN  IF Len(mine) = 0 THEN rows[k][3] = "Absent"
                      ELSE \E j \in 1..Len(mine) : rows[k][3] = mine[j].status

\* Zoe was added before Amy and marked Present before Amy was added; Show lists
\* Amy first, Absent for want of a mark, then Zoe, Present
C5_Witness ==
    /\ last.op = "show_attendance_view"
    /\ Len(students) = 2
    /\ students[1].name = "Zoe"
    /\ Len(MarksFor(attendance, Today)) = 1
    /\ txt_view = "S2 | Amy -> Absent\nS1 | Zoe -> Present"

\* C6 as first stated: with no student in the roster the query returns the
\* empty sequence for every date and Show leaves exactly the text "No students
\* found." in the text area, nothing before or after it; with a student in the
\* roster Show never leaves that text.
C6_ExactlyNoStudentsFound ==
    /\ Len(students) = 0 => \A att_date \in QueryDates :
                                get_attendance_for_date(att_date) = {<<>>}
    /\ last.op = "show_attendance_view" =>
          IF Len(students) = 0 THEN txt_view = "No students found."
                               ELSE txt_view # "No students found."

\* C6: with no student in the roster the query returns the empty sequence for
\* every date and Show leaves in the text area the text "No students found."
\* followed by one line break; with a student in the roster Show leaves neither
\* that text nor that text and a line break.
C6_NoStudentsFoundAndLineBreak ==
    /\ Len(students) = 0 => \A att_date \in QueryDates :
                                get_attendance_for_date(att_date) = {<<>>}
    /\ last.op = "show_attendance_view" =>
          IF Len(students) = 0
          THEN txt_view = "No students found." \o "\n"
          ELSE txt_view \notin {"No students found.", "No students found." \o "\n"}

\* Show was pressed with an empty roster
C6_Witness ==
    /\ last.op = "show_attendance_view"
    /\ Len(students) = 0
    /\ Len(txt_view) = Len("No students found.") + 1

\* empty once trimmed: nothing but whitespace
AllSpace(s) == \A i \in 1..Len(s) : IsSpace(CharAt(s, i))

\* C7: Add with a Student ID or a Name that is empty once trimmed, and Save
\* Attendance with a date that is empty once trimmed, call no store function
\* and leave the roster, the marks, the entries and the table as they were.
C7_RequiredFieldGuard ==
    [][( \/ /\ last'.op = "add_student_ui"
            /\ AllSpace(ent_id) \/ AllSpace(ent_name)
         \/ /\ last'.op = "save_attendance"
            /\ AllSpace(ent_date) )
        => /\ last'.calls = <<>>
           /\ UNCHANGED <<students, attendance, leaked, ent_id, ent_name, ent_date,
                          view_date, tree, selection>>]_vars

\* Add was pressed with an id and a Name of one space, a student stored and the
\* table loaded: the warning was shown
C7_Witness ==
    /\ last.op = "add_student_ui"
    /\ last.dialog = <<"showwarning", "Input", "Enter both Student ID and Name.">>
    /\ ent_id = "S1"
    /\ ent_name = " "
    /\ Len(students) = 1
    /\ Len(tree) = 1

\* C8: the table is empty at window creation; only Load changes which rows it
\* holds; a menu command changes only the Status cell of the selected rows;
\* every other action (Save, Add, Export, Show among them) leaves it as it is.
C8_TableStateMachine ==
    /\ tree = <<>>
    /\ [][/\ last'.op # "load_students_for_marking"
              => /\ Len(tree') = Len(tree)
                 /\ \A i \in 1..Len(tree) :
                       tree'[i][1] = tree[i][1] /\ tree'[i][2] = tree[i][2]
          /\ last'.op = "set_status_selected"
              => \A i \in 1..Len(tree) : i \notin selection => tree'[i] = tree[i]
          /\ last'.op \notin {"load_students_for_marking", "set_status_selected"}
              => tree' = tree]_vars

\* a student was just added while the table, loaded before, holds only the
\* other student, marked Present
C8_Witness ==
    /\ last.op = "add_student_ui"
    /\ last.dialog[1] = "showinfo"
    /\ Len(students) = 2
    /\ Len(tree) = 1
    /\ tree[1][3] = "Present"

====
